---- MODULE Spec2Model ----
(***************************************************************************)
(* A model of the UCI session manager of src/src/engine.rs: the Engine     *)
(* with its command queue and event queue, the writer and reader tasks,    *)
(* the handshake operations uci / isready / opts, the job task `go`        *)
(* spawned by Go::execute and the Searcher that consumes a job's events.   *)
(* The chess engine itself (the child process) is the environment.         *)
(*                                                                         *)
(* A line of text is modelled as the sequence of its whitespace-separated  *)
(* tokens; the newline the writer appends is the separate item NL.         *)
(***************************************************************************)
EXTENDS Integers, Sequences, FiniteSets, TLC

VARIABLES
    state,      \* Engine.state
    cmdq,       \* command queue: Engine.tx -> writer's rx
    evq,        \* event queue: reader's tx -> Engine.rx
    wpc,        \* writer task: "recv" | "newline" | "dead"
    rpc,        \* reader task: "run" | "dead"
    stdin,      \* everything written to the child's stdin, in order
    cpos,       \* number of stdin lines the child has read
    alive,      \* the child process is running
    searching,  \* the child is searching (a go command is being served)
    infoLeft,   \* info lines the child may still print
    pipe,       \* child's stdout: lines emitted and not yet read
    lock,       \* holder of Arc<Mutex<Engine>>: {} or {task}
    pc,         \* position of every task (the caller and the job tasks)
    job,        \* the Go value of every job
    stx,        \* per job: the Searcher channel's buffered events
    delivered,  \* per job: events returned by Searcher::next, in order
    gotNone,    \* per job: Searcher::next has returned None
    optsLeft,   \* option pairs opts() still has to send
    budget,     \* commands the callers' future calls may still enqueue
    sent,       \* history: every command enqueued by Engine::send, with its sender
    uciokSeen,  \* history: uci() has observed a uciok line
    busyAtSubmit \* history per job: another job was in flight at execute

(* The Engine of examples/engine.rs (the variant with stop and wait) *)
VARIABLES
    xq,         \* command queue: Engine.tx -> writer's rx
    xev,        \* event queue: reader's tx -> Engine.rx
    xw,         \* writer task: "run" | "dead"
    xr,         \* reader task: "run" | "dead"
    xin,        \* everything written to the child's stdin, in order
    xcpos,      \* number of stdin lines the child has read
    xalive,     \* the child process is running
    xsearching, \* the child is searching
    xinfoLeft,  \* info lines the child may still print
    xpipe,      \* child's stdout: lines emitted and not yet read
    xpc,        \* position of the caller
    xbudget,    \* calls the caller may still make
    xlog        \* history: the calls that have returned, with how they ended

(* A call of a decoder of src/src/search.rs *)
VARIABLES
    dline,      \* the line given to the decoder
    dop,        \* the decoder called: "none" | "parse_info" | "parse_bestmove"
    dres        \* what the call produced

(* The actor of examples/stockfish.rs: one task that owns the child's pipes *)
VARIABLES
    amail,      \* the actor's mailbox: Handle.tx -> Engine.rx
    apc,        \* position of the actor task
    ain,        \* the lines written to the child's stdin, in order
    acpos,      \* number of stdin lines the child has read
    aalive,     \* the child process is running
    asearching, \* the child is searching
    ainfoLeft,  \* info lines the child may still print
    apipe,      \* child's stdout: lines printed and not yet read
    astx,       \* the Searcher channel of the latest Go request
    hpc,        \* position of the caller that holds the Handle
    hbudget     \* requests the caller may still make

\* the variables of the Engine of src/src/engine.rs
svars == <<state, cmdq, evq, wpc, rpc, stdin, cpos, alive, searching, infoLeft,
           pipe, lock, pc, job, stx, delivered, gotNone, optsLeft, budget,
           sent, uciokSeen, busyAtSubmit>>

\* the variables of the Engine of examples/engine.rs
exvars == <<xq, xev, xw, xr, xin, xcpos, xalive, xsearching, xinfoLeft, xpipe,
            xpc, xbudget, xlog>>

\* the variables of a call of the decoders of src/src/search.rs
dvars == <<dline, dop, dres>>

\* the variables of the actor of examples/stockfish.rs and of its caller
avars == <<amail, apc, ain, acpos, aalive, asearching, ainfoLeft, apipe, astx,
           hpc, hbudget>>

vars == <<svars, exvars, dvars, avars>>

\* what an operation of the Engine of src/src/engine.rs leaves alone
notS == <<exvars, dvars, avars>>

\* what an operation of the Engine of examples/engine.rs leaves alone
notX == <<svars, dvars, avars>>

\* what a call of a decoder leaves alone
notD == <<svars, exvars, avars>>

\* what a step of the actor of examples/stockfish.rs, of its caller or of its
\* child leaves alone
notA == <<svars, exvars, dvars>>

----------------------------------------------------------------------------
(* Bounds of the model *)

\* commands the calls of a run enqueue in total (a job enqueues two)
MaxCmds == 4
\* info lines the child prints in a run
MaxInfo == 1
\* moves a caller gives a job
MaxMoves == 2
\* calls the caller of the examples/engine.rs Engine makes in a run
MaxCalls == 3
\* info lines the child prints in a run of one job
StreamInfo == 2
\* pieces an input line of a decoder is made of
MaxSegs == 3

(* Program constants *)

ChanCap == 32
ActorCap == 100
SearcherCap == 100
DefaultDepth == 10

Caller == 0
Jobs == 1..(MaxCmds \div 2)
Tasks == {Caller} \cup Jobs

NL == <<"\n">>

----------------------------------------------------------------------------
(* Go: the job description and its builder *)

GoNew == [position |-> <<>>, moves |-> <<>>, depth |-> DefaultDepth]

GoFen(g, fen) == [g EXCEPT !.position = <<fen>>]

GoMoves(g, mvs) == [g EXCEPT !.moves = g.moves \o mvs]

GoDepth(g, d) == [g EXCEPT !.depth = d]

\* The jobs the callers of the model build.
\* The job of the j-th execute call: the default job first, then a job built
\* as main does.
JobOf(j) == IF j = 1 THEN GoNew ELSE GoDepth(GoMoves(GoNew, <<"d2d4", "g8f6">>), 32)

\* PositionCmd that writes the moves keyword for an empty move list too
PositionCmdAlwaysMoves(g) ==
    <<"position">>
      \o (IF g.position = <<>> THEN <<"startpos">> ELSE <<"fen">> \o g.position[1])
      \o <<"moves">> \o g.moves

\* go, lines 175-183: the position command of a job.
PositionCmd(g) ==
    <<"position">>
      \o (IF g.position = <<>> THEN <<"startpos">> ELSE <<"fen">> \o g.position[1])
      \o (IF g.moves # <<>> THEN <<"moves">> \o g.moves ELSE <<>>)

\* go, line 187: format!("go depth {}", job.depth)
GoCmd(g) == <<"go", "depth", ToString(g.depth)>>

SetOptionCmd(name, value) == <<"setoption", "name", name, "value", value>>

\* The option lists the caller passes to opts.
OptLists ==
    { << <<"UCI_ShowWDL", "true">>, <<"MultiPV", "2">> >> }

----------------------------------------------------------------------------
(* Lines of the engine and their decoding *)

UciOk == <<"uciok">>
ReadyOk == <<"readyok">>

\* What the child may print during a search.
InfoLines ==
    { <<"info", "depth", "1", "pv", "e2e4">>,   \* decodes
      <<"info", "depth", "x">>,                 \* depth is no number
      <<"info", "string", "hello">> }           \* not an "info depth" line

BestLines ==
    { <<"bestmove", "e2e4", "ponder", "e7e5">>,
      <<"bestmove", "e2e4">> }

\* IsInfoDepth that looks at the first token only
IsInfoAny(line) == Len(line) >= 1 /\ line[1] = "info"

\* line.starts_with("info depth")
IsInfoDepth(line) == Len(line) >= 2 /\ line[1] = "info" /\ line[2] = "depth"

\* line.starts_with("bestmove")
IsBestMove(line) == Len(line) >= 1 /\ line[1] = "bestmove"

\* line.starts_with("uciok")
IsUciOk(line) == Len(line) >= 1 /\ line[1] = "uciok"

\* line == "readyok"
IsReadyOk(line) == line = ReadyOk

\* The numeric tokens of the model and the value str::parse gives them.
NumVal ==
    [t \in {"0", "1", "2", "8", "10", "32"} |->
        CASE t = "0" -> 0 [] t = "1" -> 1 [] t = "2" -> 2
          [] t = "8" -> 8 [] t = "10" -> 10 [] t = "32" -> 32]

\* tokens that parse as a negative i32 (and so not as u32 / u64)
NegVal == [t \in {"-3"} |-> 0 - 3]

IsUnsigned(tok) == tok \in DOMAIN NumVal

IsSigned(tok) == tok \in DOMAIN NumVal \/ tok \in DOMAIN NegVal

SignedVal(tok) == IF tok \in DOMAIN NumVal THEN NumVal[tok] ELSE NegVal[tok]

\* Info::default()
InfoDefault ==
    [depth |-> 0, seldepth |-> 0, multipv |-> 0,
     score |-> [kind |-> "Cp", val |-> 0], wdl |-> <<0, 0, 0>>,
     nodes |-> 0, nps |-> 0, hashfull |-> 0, tbhits |-> 0, time |-> 0,
     pv |-> <<>>]

UnsignedKeywords ==
    {"depth", "seldepth", "multipv", "nodes", "nps", "hashfull", "tbhits", "time"}

\* info.<field> = value, for the keywords with one unsigned value
SetField(info, key, v) ==
    CASE key = "depth" -> [info EXCEPT !.depth = v]
      [] key = "seldepth" -> [info EXCEPT !.seldepth = v]
      [] key = "multipv" -> [info EXCEPT !.multipv = v]
      [] key = "nodes" -> [info EXCEPT !.nodes = v]
      [] key = "nps" -> [info EXCEPT !.nps = v]
      [] key = "hashfull" -> [info EXCEPT !.hashfull = v]
      [] key = "tbhits" -> [info EXCEPT !.tbhits = v]
      [] key = "time" -> [info EXCEPT !.time = v]

ParseErr == [ok |-> FALSE]

\* The while-let loop of parse_info: parts[i..] is what parts.next() still yields.
RECURSIVE ScanInfo(_, _, _)
ScanInfo(parts, i, info) ==
    IF i > Len(parts) THEN [ok |-> TRUE, info |-> info]
    ELSE LET part == parts[i]
             n == Len(parts)
         IN
         CASE part \in UnsignedKeywords ->
                IF i + 1 > n \/ ~IsUnsigned(parts[i + 1]) THEN ParseErr
                ELSE ScanInfo(parts, i + 2, SetField(info, part, NumVal[parts[i + 1]]))
           [] part = "score" ->
                IF i + 1 > n THEN ParseErr
                ELSE IF parts[i + 1] \in {"cp", "mate"}
                THEN IF i + 2 > n \/ ~IsSigned(parts[i + 2]) THEN ParseErr
                     ELSE ScanInfo(parts, i + 3,
                            [info EXCEPT !.score =
                                [kind |-> IF parts[i + 1] = "cp" THEN "Cp" ELSE "Mate",
                                 val |-> SignedVal(parts[i + 2])]])
                ELSE ScanInfo(parts, i + 2, info)    \* eprintln!("Unkwown score")
           [] part = "wdl" ->
                IF i + 3 > n
                   \/ ~IsUnsigned(parts[i + 1])
                   \/ ~IsUnsigned(parts[i + 2])
                   \/ ~IsUnsigned(parts[i + 3])
                THEN ParseErr
                ELSE ScanInfo(parts, i + 4,
                        [info EXCEPT !.wdl = <<NumVal[parts[i + 1]],
                                               NumVal[parts[i + 2]],
                                               NumVal[parts[i + 3]]>>])
           [] part = "pv" ->
                [ok |-> TRUE,
                 info |-> [info EXCEPT !.pv = info.pv \o SubSeq(parts, i + 1, n)]]
           [] OTHER -> ScanInfo(parts, i + 1, info)

\* ParseInfo that starts its scan behind the first token
ParseInfoSkipsFirst(line) ==
    LET r == ScanInfo(line, 2, InfoDefault)
    IN  IF r.ok THEN [ok |-> TRUE, ev |-> [kind |-> "Info", info |-> r.info]]
        ELSE ParseErr

\* parse_info / <Info as FromStr>::from_str: Ok(Search::Info(info)) or Err
ParseInfo(line) ==
    LET r == ScanInfo(line, 1, InfoDefault)
    IN  IF r.ok THEN [ok |-> TRUE, ev |-> [kind |-> "Info", info |-> r.info]]
        ELSE ParseErr

\* parse_bestmove: parts[1] and parts[3] are indexed without a length check:
\* a line of fewer than four tokens panics (index out of bounds).
ParseBestMove(line) ==
    IF Len(line) < 4
    THEN ParseErr
    ELSE [ok |-> TRUE, ev |-> [kind |-> "BestMove", best |-> line[2], ponder |-> line[4]]]

----------------------------------------------------------------------------

\* The state of the two Engines after Engine::new, with the budgets of the run.
EngineInit(cmds, infos) ==
    /\ state = "Init"
    /\ cmdq = <<>>
    /\ evq = <<>>
    /\ wpc = "recv"
    /\ rpc = "run"
    /\ stdin = <<>>
    /\ cpos = 0
    /\ alive = TRUE
    /\ searching = FALSE
    /\ infoLeft = infos
    /\ pipe = <<>>
    /\ lock = {}
    /\ pc = [t \in Tasks |-> IF t = Caller THEN "idle" ELSE "new"]
    /\ job = [j \in Jobs |-> GoNew]
    /\ stx = [j \in Jobs |-> <<>>]
    /\ delivered = [j \in Jobs |-> <<>>]
    /\ gotNone = [j \in Jobs |-> FALSE]
    /\ optsLeft = <<>>
    /\ budget = cmds
    /\ sent = <<>>
    /\ uciokSeen = FALSE
    /\ busyAtSubmit = [j \in Jobs |-> FALSE]
    /\ xq = <<>>
    /\ xev = <<>>
    /\ xw = "run"
    /\ xr = "run"
    /\ xin = <<>>
    /\ xcpos = 0
    /\ xalive = TRUE
    /\ xsearching = FALSE
    /\ xinfoLeft = MaxInfo
    /\ xpipe = <<>>
    /\ xpc = "idle"
    /\ xbudget = MaxCalls
    /\ xlog = <<>>

\* No decoder call is under way.
DecoderIdle ==
    /\ dline = <<>>
    /\ dop = "none"
    /\ dres = [kind |-> "none"]

\* spawn() of examples/stockfish.rs: the child runs, the actor task is
\* spawned and has not yet written anything, the caller holds the Handle.
ActorInit ==
    /\ amail = <<>>
    /\ apc = "start"
    /\ ain = <<>>
    /\ acpos = 0
    /\ aalive = TRUE
    /\ asearching = FALSE
    /\ ainfoLeft = MaxInfo
    /\ apipe = <<>>
    /\ astx = <<>>
    /\ hpc = "idle"
    /\ hbudget = MaxCalls

InitWith(cmds, infos) ==
    /\ EngineInit(cmds, infos)
    /\ DecoderIdle
    /\ ActorInit

Init == InitWith(MaxCmds, MaxInfo)

----------------------------------------------------------------------------
(* Engine::send and Engine::recv *)

JobEnded == {"done", "decode error", "index panic", "reader died", "sender died"}

\* The job task has returned or unwound: its Sender<Search> is dropped.
TxDropped(j) == pc[j] \in JobEnded

\* A job is in flight: its position command is sent, its bestmove not consumed.
InFlight(j) == pc[j] \in {"go", "loop"}

\* Engine::send by task t: enqueue, or panic "sender died" when the writer's
\* receiver is gone.  keep: the task still holds the Engine afterwards.
Send(t, cmd, nextpc, keep) ==
    IF wpc = "dead"
    THEN /\ pc' = [pc EXCEPT ![t] = "sender died"]
         /\ lock' = lock \ {t}
         /\ UNCHANGED <<cmdq, sent>>
    ELSE /\ Len(cmdq) < ChanCap
         /\ cmdq' = Append(cmdq, cmd)
         /\ sent' = Append(sent, [cmd |-> cmd, by |-> t])
         /\ pc' = [pc EXCEPT ![t] = nextpc]
         /\ lock' = IF keep THEN lock \cup {t} ELSE lock \ {t}

\* Engine::recv has a line to return.
RecvReady == evq # <<>>

\* Engine::recv finds the event queue closed and drained:
\* rx.recv() is None and expect("reader died") panics.
RecvClosed == evq = <<>> /\ rpc = "dead"

----------------------------------------------------------------------------
(* The writer task *)

\* rx.recv() and stdin.write_all(cmd): a write to a dead child fails, the
\* task returns the error and its receiver (the command queue) is dropped.
WriterTake ==
    /\ wpc = "recv"
    /\ cmdq # <<>>
    /\ IF alive
       THEN /\ stdin' = Append(stdin, Head(cmdq))
            /\ cmdq' = Tail(cmdq)
            /\ wpc' = "newline"
       ELSE /\ wpc' = "dead"
            /\ cmdq' = <<>>
            /\ UNCHANGED stdin
    /\ UNCHANGED <<state, evq, rpc, cpos, alive, searching, infoLeft, pipe, lock,
                   pc, job, stx, delivered, gotNone, optsLeft, budget, sent,
                   uciokSeen, busyAtSubmit>>
    /\ UNCHANGED notS

\* WriterNewline without the write of the newline
WriterNewlineMissing ==
    /\ wpc = "newline"
    /\ wpc' = IF alive THEN "recv" ELSE "dead"
    /\ cmdq' = IF alive THEN cmdq ELSE <<>>
    /\ UNCHANGED <<state, evq, rpc, stdin, cpos, alive, searching, infoLeft, pipe,
                   lock, pc, job, stx, delivered, gotNone, optsLeft, budget, sent,
                   uciokSeen, busyAtSubmit>>
    /\ UNCHANGED notS

\* stdin.write_all(b"\n") and stdin.flush()
WriterNewline ==
    /\ wpc = "newline"
    /\ IF alive
       THEN /\ stdin' = Append(stdin, NL)
            /\ wpc' = "recv"
            /\ UNCHANGED cmdq
       ELSE /\ wpc' = "dead"
            /\ cmdq' = <<>>
            /\ UNCHANGED stdin
    /\ UNCHANGED <<state, evq, rpc, cpos, alive, searching, infoLeft, pipe, lock,
                   pc, job, stx, delivered, gotNone, optsLeft, budget, sent,
                   uciokSeen, busyAtSubmit>>
    /\ UNCHANGED notS

----------------------------------------------------------------------------
(* The child process: a UCI engine *)

\* The complete lines of a byte stream: the tokens between two newlines.
RECURSIVE SplitLines(_, _)
SplitLines(s, cur) ==
    IF s = <<>> THEN <<>>
    ELSE IF Head(s) = NL THEN <<cur>> \o SplitLines(Tail(s), <<>>)
    ELSE SplitLines(Tail(s), cur \o Head(s))

ChildLines == SplitLines(stdin, <<>>)

\* The child reads its next command line.  A go received during a search
\* waits for that search to end; every other command is served at once.
ChildRead ==
    /\ alive
    /\ cpos < Len(ChildLines)
    /\ LET cmd == ChildLines[cpos + 1]
           verb == IF cmd = <<>> THEN "" ELSE cmd[1]
       IN  /\ searching => verb # "go"
           /\ cpos' = cpos + 1
           /\ CASE verb = "uci" ->
                     pipe' = Append(pipe, UciOk) /\ UNCHANGED <<searching, infoLeft>>
                [] verb = "isready" ->
                     pipe' = Append(pipe, ReadyOk) /\ UNCHANGED <<searching, infoLeft>>
                [] verb = "go" ->
                     searching' = TRUE /\ UNCHANGED <<pipe, infoLeft>>
                [] OTHER -> UNCHANGED <<pipe, searching, infoLeft>>
    /\ UNCHANGED <<state, cmdq, evq, wpc, rpc, stdin, alive, lock, pc, job, stx,
                   delivered, gotNone, optsLeft, budget, sent, uciokSeen,
                   busyAtSubmit>>
    /\ UNCHANGED notS

\* The searching child prints one of the given lines.
ChildInfoOf(lines) ==
    /\ alive
    /\ searching
    /\ infoLeft > 0
    /\ \E l \in lines : pipe' = Append(pipe, l)
    /\ infoLeft' = infoLeft - 1
    /\ UNCHANGED <<state, cmdq, evq, wpc, rpc, stdin, cpos, alive, searching, lock,
                   pc, job, stx, delivered, gotNone, optsLeft, budget, sent,
                   uciokSeen, busyAtSubmit>>
    /\ UNCHANGED notS

ChildInfo == ChildInfoOf(InfoLines)

ChildBestMove ==
    /\ alive
    /\ searching
    /\ \E b \in BestLines : pipe' = Append(pipe, b)
    /\ searching' = FALSE
    /\ UNCHANGED <<state, cmdq, evq, wpc, rpc, stdin, cpos, alive, infoLeft, lock, pc, job,
                   stx, delivered, gotNone, optsLeft, budget, sent, uciokSeen,
                   busyAtSubmit>>
    /\ UNCHANGED notS

\* The process is killed from outside; what it printed stays in the pipe.
Kill ==
    /\ alive
    /\ alive' = FALSE
    /\ searching' = FALSE
    /\ UNCHANGED <<state, cmdq, evq, wpc, rpc, stdin, cpos, infoLeft, pipe, lock, pc, job,
                   stx, delivered, gotNone, optsLeft, budget, sent, uciokSeen,
                   busyAtSubmit>>
    /\ UNCHANGED notS

----------------------------------------------------------------------------
(* The reader task *)

\* reader.next_line() yields a line; tx.send(line)
ReaderLine ==
    /\ rpc = "run"
    /\ pipe # <<>>
    /\ Len(evq) < ChanCap
    /\ evq' = Append(evq, Head(pipe))
    /\ pipe' = Tail(pipe)
    /\ UNCHANGED <<state, cmdq, wpc, rpc, stdin, cpos, alive, searching, infoLeft,
                   lock, pc, job, stx, delivered, gotNone, optsLeft, budget, sent,
                   uciokSeen, busyAtSubmit>>
    /\ UNCHANGED notS

\* reader.next_line() is Ok(None): end of file, the task returns and drops tx.
ReaderEof ==
    /\ rpc = "run"
    /\ pipe = <<>>
    /\ ~alive
    /\ rpc' = "dead"
    /\ UNCHANGED <<state, cmdq, evq, wpc, stdin, cpos, alive, searching, infoLeft,
                   pipe, lock, pc, job, stx, delivered, gotNone, optsLeft, budget,
                   sent, uciokSeen, busyAtSubmit>>
    /\ UNCHANGED notS

\* reader.next_line() is Err on what the child printed (a line that is not
\* UTF-8, an I/O error): the task returns the error and drops tx.
ReaderFail ==
    /\ rpc = "run"
    /\ pipe # <<>>
    /\ pipe' = Tail(pipe)
    /\ rpc' = "dead"
    /\ UNCHANGED <<state, cmdq, evq, wpc, stdin, cpos, alive, searching, infoLeft,
                   lock, pc, job, stx, delivered, gotNone, optsLeft, budget,
                   sent, uciokSeen, busyAtSubmit>>
    /\ UNCHANGED notS

----------------------------------------------------------------------------
(* The foreground caller: uci, isready, opts on the locked Engine *)

\* Engine::uci, line 89: lock the Engine and send "uci"
Uci ==
    /\ pc[Caller] = "idle"
    /\ lock = {}
    /\ budget >= 1
    /\ budget' = budget - 1
    /\ Send(Caller, <<"uci">>, "uci", TRUE)
    /\ UNCHANGED <<state, evq, wpc, rpc, stdin, cpos, alive, searching, infoLeft,
                   pipe, job, stx, delivered, gotNone, optsLeft, uciokSeen,
                   busyAtSubmit>>
    /\ UNCHANGED notS

\* Engine::uci, lines 90-95: one turn of the loop
UciRecv ==
    /\ pc[Caller] = "uci"
    /\ \/ /\ RecvReady
          /\ evq' = Tail(evq)
          /\ IF IsUciOk(Head(evq))
             THEN /\ pc' = [pc EXCEPT ![Caller] = "idle"]
                  /\ lock' = lock \ {Caller}
                  /\ uciokSeen' = TRUE
             ELSE UNCHANGED <<pc, lock, uciokSeen>>
       \/ /\ RecvClosed
          /\ pc' = [pc EXCEPT ![Caller] = "reader died"]
          /\ lock' = lock \ {Caller}
          /\ UNCHANGED <<evq, uciokSeen>>
    /\ UNCHANGED <<state, cmdq, wpc, rpc, stdin, cpos, alive, searching, infoLeft,
                   pipe, job, stx, delivered, gotNone, optsLeft, budget, sent,
                   busyAtSubmit>>
    /\ UNCHANGED notS

\* Engine::isready, line 99: lock the Engine and send "isready"
IsReady ==
    /\ pc[Caller] = "idle"
    /\ lock = {}
    /\ budget >= 1
    /\ budget' = budget - 1
    /\ Send(Caller, <<"isready">>, "isready", TRUE)
    /\ UNCHANGED <<state, evq, wpc, rpc, stdin, cpos, alive, searching, infoLeft,
                   pipe, job, stx, delivered, gotNone, optsLeft, uciokSeen,
                   busyAtSubmit>>
    /\ UNCHANGED notS

\* IsReadyRecv that takes any line for the acknowledgment
IsReadyRecvAnyLine ==
    /\ pc[Caller] = "isready"
    /\ \/ /\ RecvReady
          /\ evq' = Tail(evq)
          /\ state' = "Ready"
          /\ pc' = [pc EXCEPT ![Caller] = "idle"]
          /\ lock' = lock \ {Caller}
       \/ /\ RecvClosed
          /\ pc' = [pc EXCEPT ![Caller] = "reader died"]
          /\ lock' = lock \ {Caller}
          /\ UNCHANGED <<state, evq>>
    /\ UNCHANGED <<cmdq, wpc, rpc, stdin, cpos, alive, searching, infoLeft, pipe,
                   job, stx, delivered, gotNone, optsLeft, budget, sent, uciokSeen,
                   busyAtSubmit>>
    /\ UNCHANGED notS

\* Engine::isready, lines 100-105: one turn of the loop
IsReadyRecv ==
    /\ pc[Caller] = "isready"
    /\ \/ /\ RecvReady
          /\ evq' = Tail(evq)
          /\ IF IsReadyOk(Head(evq))
             THEN /\ state' = "Ready"
                  /\ pc' = [pc EXCEPT ![Caller] = "idle"]
                  /\ lock' = lock \ {Caller}
             ELSE UNCHANGED <<state, pc, lock>>
       \/ /\ RecvClosed
          /\ pc' = [pc EXCEPT ![Caller] = "reader died"]
          /\ lock' = lock \ {Caller}
          /\ UNCHANGED <<state, evq>>
    /\ UNCHANGED <<cmdq, wpc, rpc, stdin, cpos, alive, searching, infoLeft, pipe,
                   job, stx, delivered, gotNone, optsLeft, budget, sent, uciokSeen,
                   busyAtSubmit>>
    /\ UNCHANGED notS

\* Opts that returns after the first pair
OptsFirstOnly ==
    /\ pc[Caller] = "idle"
    /\ lock = {}
    /\ \E list \in OptLists :
         /\ budget >= Len(list)
         /\ budget' = budget - Len(list)
         /\ Send(Caller, SetOptionCmd(list[1][1], list[1][2]), "idle", FALSE)
         /\ optsLeft' = <<>>
    /\ UNCHANGED <<state, evq, wpc, rpc, stdin, cpos, alive, searching, infoLeft,
                   pipe, job, stx, delivered, gotNone, uciokSeen, busyAtSubmit>>
    /\ UNCHANGED notS

\* Engine::opts: lock the Engine and send the first pair's setoption
Opts ==
    /\ pc[Caller] = "idle"
    /\ lock = {}
    /\ \E list \in OptLists :
         /\ budget >= Len(list)
         /\ budget' = budget - Len(list)
         /\ Send(Caller, SetOptionCmd(list[1][1], list[1][2]),
                 IF Len(list) > 1 THEN "opts" ELSE "idle", Len(list) > 1)
         /\ optsLeft' = IF wpc = "dead" THEN <<>> ELSE Tail(list)
    /\ UNCHANGED <<state, evq, wpc, rpc, stdin, cpos, alive, searching, infoLeft,
                   pipe, job, stx, delivered, gotNone, uciokSeen, busyAtSubmit>>
    /\ UNCHANGED notS

\* Engine::opts, the next turn of the for loop: Engine::opt
OptsNext ==
    /\ pc[Caller] = "opts"
    /\ optsLeft # <<>>
    /\ Send(Caller, SetOptionCmd(optsLeft[1][1], optsLeft[1][2]),
            IF Len(optsLeft) > 1 THEN "opts" ELSE "idle", Len(optsLeft) > 1)
    /\ optsLeft' = IF wpc = "dead" THEN <<>> ELSE Tail(optsLeft)
    /\ UNCHANGED <<state, evq, wpc, rpc, stdin, cpos, alive, searching, infoLeft,
                   pipe, job, stx, delivered, gotNone, budget, uciokSeen,
                   busyAtSubmit>>
    /\ UNCHANGED notS

----------------------------------------------------------------------------
(* Jobs: Go::execute, the task go, Searcher::next *)

\* Go::execute on the Go value g: create the Searcher channel and spawn the
\* task.  Jobs are numbered in the order of the execute calls.
Submit(j, g) ==
    /\ pc[j] = "new"
    /\ \A k \in Jobs : k < j => pc[k] # "new"
    /\ budget >= 2
    /\ budget' = budget - 2
    /\ job' = [job EXCEPT ![j] = g]
    /\ pc' = [pc EXCEPT ![j] = "lock"]
    /\ busyAtSubmit' = [busyAtSubmit EXCEPT ![j] = \E k \in Jobs : InFlight(k)]
    /\ UNCHANGED <<state, cmdq, evq, wpc, rpc, stdin, cpos, alive, searching,
                   infoLeft, pipe, lock, stx, delivered, gotNone, optsLeft, sent,
                   uciokSeen>>
    /\ UNCHANGED notS

\* The caller builds the j-th job as JobOf(j) and executes it.
Execute(j) == Submit(j, JobOf(j))

\* The builder calls of a caller on the Go value it is about to execute:
\* job[j] of a job not yet executed is that value, Go::new() at first.
Fens == { <<"8/8/8/8/8/8/8/K6k", "w", "-", "-", "0", "1">> }

MoveLists == { <<>>, <<"e2e4">>, <<"e2e4", "e7e5">> }

Depths == {32}

Building(j) == pc[j] = "new" /\ \A k \in Jobs : k < j => pc[k] # "new"

\* Go::fen
BuildFen(j) ==
    /\ Building(j)
    /\ \E fen \in Fens : job' = [job EXCEPT ![j] = GoFen(@, fen)]
    /\ UNCHANGED <<state, cmdq, evq, wpc, rpc, stdin, cpos, alive, searching,
                   infoLeft, pipe, lock, pc, stx, delivered, gotNone, optsLeft,
                   budget, sent, uciokSeen, busyAtSubmit>>
    /\ UNCHANGED notS

\* Go::moves
BuildMoves(j) ==
    /\ Building(j)
    /\ \E mvs \in MoveLists :
          /\ Len(job[j].moves) + Len(mvs) <= MaxMoves
          /\ job' = [job EXCEPT ![j] = GoMoves(@, mvs)]
    /\ UNCHANGED <<state, cmdq, evq, wpc, rpc, stdin, cpos, alive, searching,
                   infoLeft, pipe, lock, pc, stx, delivered, gotNone, optsLeft,
                   budget, sent, uciokSeen, busyAtSubmit>>
    /\ UNCHANGED notS

\* Go::depth
BuildDepth(j) ==
    /\ Building(j)
    /\ \E d \in Depths : job' = [job EXCEPT ![j] = GoDepth(@, d)]
    /\ UNCHANGED <<state, cmdq, evq, wpc, rpc, stdin, cpos, alive, searching,
                   infoLeft, pipe, lock, pc, stx, delivered, gotNone, optsLeft,
                   budget, sent, uciokSeen, busyAtSubmit>>
    /\ UNCHANGED notS

\* Go::execute of the value the caller has built
ExecuteBuilt(j) == Submit(j, job[j])

\* JobLock without the wait for the mutex
JobLockNoMutex(j) ==
    /\ pc[j] = "lock"
    /\ lock' = lock \cup {j}
    /\ pc' = [pc EXCEPT ![j] = "position"]
    /\ UNCHANGED <<state, cmdq, evq, wpc, rpc, stdin, cpos, alive, searching,
                   infoLeft, pipe, job, stx, delivered, gotNone, optsLeft, budget,
                   sent, uciokSeen, busyAtSubmit>>
    /\ UNCHANGED notS

\* go, line 185: engine.lock().await
JobLock(j) ==
    /\ pc[j] = "lock"
    /\ lock = {}
    /\ lock' = {j}
    /\ pc' = [pc EXCEPT ![j] = "position"]
    /\ UNCHANGED <<state, cmdq, evq, wpc, rpc, stdin, cpos, alive, searching,
                   infoLeft, pipe, job, stx, delivered, gotNone, optsLeft, budget,
                   sent, uciokSeen, busyAtSubmit>>
    /\ UNCHANGED notS

\* go, line 186: engine.send(position)
JobSendPosition(j) ==
    /\ pc[j] = "position"
    /\ Send(j, PositionCmd(job[j]), "go", TRUE)
    /\ UNCHANGED <<state, evq, wpc, rpc, stdin, cpos, alive, searching, infoLeft,
                   pipe, job, stx, delivered, gotNone, optsLeft, budget, uciokSeen,
                   busyAtSubmit>>
    /\ UNCHANGED notS

\* go, line 187: engine.send("go depth N")
JobSendGo(j) ==
    /\ pc[j] = "go"
    /\ Send(j, GoCmd(job[j]), "loop", TRUE)
    /\ UNCHANGED <<state, evq, wpc, rpc, stdin, cpos, alive, searching, infoLeft,
                   pipe, job, stx, delivered, gotNone, optsLeft, budget, uciokSeen,
                   busyAtSubmit>>
    /\ UNCHANGED notS

\* go, lines 189-200: one turn of the loop on a received line.
\* A decode error returns Err from go (the `?`), a bestmove line without a
\* ponder part panics in parse_bestmove; both end the task, which drops the
\* lock guard and the job's Sender.
JobLine(j) ==
    /\ pc[j] = "loop"
    /\ RecvReady
    /\ evq' = Tail(evq)
    /\ LET line == Head(evq) IN
       IF IsInfoDepth(line)
       THEN LET r == ParseInfo(line) IN
            IF r.ok
            THEN /\ Len(stx[j]) < SearcherCap
                 /\ stx' = [stx EXCEPT ![j] = Append(@, r.ev)]
                 /\ UNCHANGED <<state, pc, lock>>
            ELSE /\ pc' = [pc EXCEPT ![j] = "decode error"]
                 /\ lock' = lock \ {j}
                 /\ UNCHANGED <<state, stx>>
       ELSE IF IsBestMove(line)
       THEN LET r == ParseBestMove(line) IN
            IF r.ok
            THEN /\ Len(stx[j]) < SearcherCap
                 /\ stx' = [stx EXCEPT ![j] = Append(@, r.ev)]
                 /\ state' = "Ready"
                 /\ pc' = [pc EXCEPT ![j] = "done"]
                 /\ lock' = lock \ {j}
            ELSE /\ pc' = [pc EXCEPT ![j] = "index panic"]
                 /\ lock' = lock \ {j}
                 /\ UNCHANGED <<state, stx>>
       ELSE UNCHANGED <<state, stx, pc, lock>>
    /\ UNCHANGED <<cmdq, wpc, rpc, stdin, cpos, alive, searching, infoLeft, pipe,
                   job, delivered, gotNone, optsLeft, budget, sent, uciokSeen,
                   busyAtSubmit>>
    /\ UNCHANGED notS

\* JobRecvClosed with a recv that waits on a closed queue
JobRecvClosedHang(j) ==
    /\ pc[j] = "loop"
    /\ RecvClosed
    /\ UNCHANGED vars

\* go, line 190 on a closed event queue: recv panics, the task unwinds.
JobRecvClosed(j) ==
    /\ pc[j] = "loop"
    /\ RecvClosed
    /\ pc' = [pc EXCEPT ![j] = "reader died"]
    /\ lock' = lock \ {j}
    /\ UNCHANGED <<state, cmdq, evq, wpc, rpc, stdin, cpos, alive, searching,
                   infoLeft, pipe, job, stx, delivered, gotNone, optsLeft, budget,
                   sent, uciokSeen, busyAtSubmit>>
    /\ UNCHANGED notS

\* Searcher::next: the next buffered event, or None once the job's Sender is
\* dropped and the buffer is empty.
SearcherNext(j) ==
    /\ pc[j] # "new"
    /\ ~gotNone[j]
    /\ IF stx[j] # <<>>
       THEN /\ delivered' = [delivered EXCEPT ![j] = Append(@, Head(stx[j]))]
            /\ stx' = [stx EXCEPT ![j] = Tail(@)]
            /\ UNCHANGED gotNone
       ELSE /\ TxDropped(j)
            /\ gotNone' = [gotNone EXCEPT ![j] = TRUE]
            /\ UNCHANGED <<delivered, stx>>
    /\ UNCHANGED <<state, cmdq, evq, wpc, rpc, stdin, cpos, alive, searching,
                   infoLeft, pipe, lock, pc, job, optsLeft, budget, sent, uciokSeen,
                   busyAtSubmit>>
    /\ UNCHANGED notS

----------------------------------------------------------------------------

Next ==
    \/ WriterTake
    \/ WriterNewline
    \/ ChildRead
    \/ ChildInfo
    \/ ChildBestMove
    \/ Kill
    \/ ReaderLine
    \/ ReaderEof
    \/ ReaderFail
    \/ Uci
    \/ UciRecv
    \/ IsReady
    \/ IsReadyRecv
    \/ Opts
    \/ OptsNext
    \/ \E j \in Jobs : Execute(j)
    \/ \E j \in Jobs : JobLock(j)
    \/ \E j \in Jobs : JobSendPosition(j)
    \/ \E j \in Jobs : JobSendGo(j)
    \/ \E j \in Jobs : JobLine(j)
    \/ \E j \in Jobs : JobRecvClosed(j)
    \/ \E j \in Jobs : SearcherNext(j)

Spec == Init /\ [][Next]_vars

\* The scheduler runs every task that can run: the job tasks, and a caller
\* that keeps calling Searcher::next.
FairSpec ==
    /\ Spec
    /\ \A j \in Jobs : /\ WF_vars(JobLine(j))
                       /\ WF_vars(JobRecvClosed(j))
                       /\ WF_vars(SearcherNext(j))

(***************************************************************************)
(* The Engine of examples/engine.rs.  A command is a text that may hold    *)
(* several lines: the sequence of its lines and of the newlines between    *)
(* and after them.  The writer appends one newline to every command.       *)
(***************************************************************************)

\* Engine::opts: one text, every pair's setoption line ended by a newline
RECURSIVE XOptsText(_)
XOptsText(list) ==
    IF list = <<>> THEN <<>>
    ELSE <<SetOptionCmd(list[1][1], list[1][2]), NL>> \o XOptsText(Tail(list))

\* Engine::prepare: the position line and the go line, each ended by a newline
XPrepare(g) == <<PositionCmd(g), NL, GoCmd(g), NL>>

\* the job of main
XJob == GoDepth(GoMoves(GoNew, <<"e2e4">>), 10)

\* Engine::stop: "stop\nisready"
XStopText == << <<"stop">>, NL, <<"isready">> >>

XChildLines == SplitLines(xin, <<>>)

\* a line of the text is a go command
HasGo(text) == \E i \in 1..Len(text) : text[i] # NL /\ text[i] # <<>> /\ text[i][1] = "go"

\* A job is in flight: a go command is on its way to the child or being
\* served, or its bestmove line is not yet consumed.
XJobPending ==
    \/ \E i \in 1..Len(xq) : HasGo(xq[i])
    \/ \E i \in (xcpos + 1)..Len(XChildLines) :
          XChildLines[i] # <<>> /\ XChildLines[i][1] = "go"
    \/ xsearching
    \/ \E i \in 1..Len(xpipe) : IsBestMove(xpipe[i])
    \/ \E i \in 1..Len(xev) : IsBestMove(xev[i])

\* The call op begins: it is logged with what it found and, when it does not
\* wait, with how it ends.
XCall(op, end) == Append(xlog, [op |-> op, busy |-> XJobPending, end |-> end])

\* The running call returns.
XReturn(how) == [xlog EXCEPT ![Len(xlog)].end = how]

\* self.tx.send(text).await? at the start of the call op: the text is
\* enqueued, or the call returns Err because the writer's receiver is gone.
XSend(op, text, nextpc, end) ==
    /\ xbudget >= 1
    /\ xbudget' = xbudget - 1
    /\ IF xw = "dead"
       THEN /\ xlog' = XCall(op, "err")
            /\ xpc' = "idle"
            /\ UNCHANGED xq
       ELSE /\ Len(xq) < ChanCap
            /\ xq' = Append(xq, text)
            /\ xlog' = XCall(op, end)
            /\ xpc' = nextpc

\* writer: rx.recv(), cmd.push('\n'), stdin.write_all(cmd), stdin.flush()
XWriter ==
    /\ xw = "run"
    /\ xq # <<>>
    /\ IF xalive
       THEN /\ xin' = xin \o Head(xq) \o <<NL>>
            /\ xq' = Tail(xq)
            /\ UNCHANGED xw
       ELSE /\ xw' = "dead"
            /\ xq' = <<>>
            /\ UNCHANGED xin
    /\ UNCHANGED <<xev, xr, xcpos, xalive, xsearching, xinfoLeft, xpipe, xpc,
                   xbudget, xlog>>
    /\ UNCHANGED notX

\* The child reads its next line.  stop ends a running search with a
\* bestmove line; a go received during a search waits for its end; an empty
\* line and the commands without an answer are read and nothing is printed.
XChildRead ==
    /\ xalive
    /\ xcpos < Len(XChildLines)
    /\ LET cmd == XChildLines[xcpos + 1]
           verb == IF cmd = <<>> THEN "" ELSE cmd[1]
       IN  /\ xsearching => verb # "go"
           /\ xcpos' = xcpos + 1
           /\ CASE verb = "uci" ->
                     xpipe' = Append(xpipe, UciOk) /\ UNCHANGED xsearching
                [] verb = "isready" ->
                     xpipe' = Append(xpipe, ReadyOk) /\ UNCHANGED xsearching
                [] verb = "go" ->
                     xsearching' = TRUE /\ UNCHANGED xpipe
                [] verb = "stop" /\ xsearching ->
                     /\ \E b \in BestLines : xpipe' = Append(xpipe, b)
                     /\ xsearching' = FALSE
                [] OTHER -> UNCHANGED <<xpipe, xsearching>>
    /\ UNCHANGED <<xq, xev, xw, xr, xin, xalive, xinfoLeft, xpc, xbudget, xlog>>
    /\ UNCHANGED notX

XChildInfo ==
    /\ xalive
    /\ xsearching
    /\ xinfoLeft > 0
    /\ \E l \in InfoLines : xpipe' = Append(xpipe, l)
    /\ xinfoLeft' = xinfoLeft - 1
    /\ UNCHANGED <<xq, xev, xw, xr, xin, xcpos, xalive, xsearching, xpc, xbudget,
                   xlog>>
    /\ UNCHANGED notX

XChildBestMove ==
    /\ xalive
    /\ xsearching
    /\ \E b \in BestLines : xpipe' = Append(xpipe, b)
    /\ xsearching' = FALSE
    /\ UNCHANGED <<xq, xev, xw, xr, xin, xcpos, xalive, xinfoLeft, xpc, xbudget,
                   xlog>>
    /\ UNCHANGED notX

XKill ==
    /\ xalive
    /\ xalive' = FALSE
    /\ xsearching' = FALSE
    /\ UNCHANGED <<xq, xev, xw, xr, xin, xcpos, xinfoLeft, xpipe, xpc, xbudget,
                   xlog>>
    /\ UNCHANGED notX

\* reader: next_line() yields a line, tx.send(line).await?
XReaderLine ==
    /\ xr = "run"
    /\ xpipe # <<>>
    /\ Len(xev) < ChanCap
    /\ xev' = Append(xev, Head(xpipe))
    /\ xpipe' = Tail(xpipe)
    /\ UNCHANGED <<xq, xw, xr, xin, xcpos, xalive, xsearching, xinfoLeft, xpc,
                   xbudget, xlog>>
    /\ UNCHANGED notX

\* reader: next_line() is Ok(None)
XReaderEof ==
    /\ xr = "run"
    /\ xpipe = <<>>
    /\ ~xalive
    /\ xr' = "dead"
    /\ UNCHANGED <<xq, xev, xw, xin, xcpos, xalive, xsearching, xinfoLeft, xpipe,
                   xpc, xbudget, xlog>>
    /\ UNCHANGED notX

\* reader: next_line() is Err on a line the child printed
XReaderFail ==
    /\ xr = "run"
    /\ xpipe # <<>>
    /\ xpipe' = Tail(xpipe)
    /\ xr' = "dead"
    /\ UNCHANGED <<xq, xev, xw, xin, xcpos, xalive, xsearching, xinfoLeft, xpc,
                   xbudget, xlog>>
    /\ UNCHANGED notX

\* Engine::uci: send "uci", then wait("uciok")
XUci ==
    /\ xpc = "idle"
    /\ XSend("uci", << <<"uci">> >>, "uci", "running")
    /\ UNCHANGED <<xev, xw, xr, xin, xcpos, xalive, xsearching, xinfoLeft, xpipe>>
    /\ UNCHANGED notX

\* Engine::isready: send "isready", then wait("readyok")
XIsReady ==
    /\ xpc = "idle"
    /\ XSend("isready", << <<"isready">> >>, "isready", "running")
    /\ UNCHANGED <<xev, xw, xr, xin, xcpos, xalive, xsearching, xinfoLeft, xpipe>>
    /\ UNCHANGED notX

\* XStop that sends the stop command alone
XStopNoSync ==
    /\ xpc \in {"idle", "select"}
    /\ XSend("stop", << <<"stop">> >>, "stop", "running")
    /\ UNCHANGED <<xev, xw, xr, xin, xcpos, xalive, xsearching, xinfoLeft, xpipe>>
    /\ UNCHANGED notX

\* Engine::stop: send "stop\nisready", then wait("readyok"); called by an
\* idle caller, or by the timer branch of main's select loop.
XStop ==
    /\ xpc \in {"idle", "select"}
    /\ XSend("stop", XStopText, "stop", "running")
    /\ UNCHANGED <<xev, xw, xr, xin, xcpos, xalive, xsearching, xinfoLeft, xpipe>>
    /\ UNCHANGED notX

\* The keyword the call op waits for.
XKeyword(op) == IF op = "uci" THEN UciOk ELSE ReadyOk

\* Engine::wait: one turn of the while-let loop; the loop ends on the
\* keyword, and also when rx.recv() is None.
XWait ==
    /\ xpc \in {"uci", "isready", "stop"}
    /\ \/ /\ xev # <<>>
          /\ xev' = Tail(xev)
          /\ IF Head(xev) = XKeyword(xpc)
             THEN xpc' = "idle" /\ xlog' = XReturn("ack")
             ELSE UNCHANGED <<xpc, xlog>>
       \/ /\ xev = <<>>
          /\ xr = "dead"
          /\ xpc' = "idle"
          /\ xlog' = XReturn("eof")
          /\ UNCHANGED xev
    /\ UNCHANGED <<xq, xw, xr, xin, xcpos, xalive, xsearching, xinfoLeft, xpipe,
                   xbudget>>
    /\ UNCHANGED notX

\* Engine::opts: all the setoption lines in one command, and Ok(())
XOpts ==
    /\ xpc = "idle"
    /\ \E list \in OptLists : XSend("opts", XOptsText(list), "idle", "ok")
    /\ UNCHANGED <<xev, xw, xr, xin, xcpos, xalive, xsearching, xinfoLeft, xpipe>>
    /\ UNCHANGED notX

\* main: engine.tx.send(engine.prepare(job)), then the select loop
XGoSend ==
    /\ xpc = "idle"
    /\ XSend("go", XPrepare(XJob), "select", "running")
    /\ UNCHANGED <<xev, xw, xr, xin, xcpos, xalive, xsearching, xinfoLeft, xpipe>>
    /\ UNCHANGED notX

\* main's select loop, the branch of a received line: search(&line) unwraps
\* the decoding, a bestmove line ends the loop.
XSelectLine ==
    /\ xpc = "select"
    /\ xev # <<>>
    /\ xev' = Tail(xev)
    /\ LET line == Head(xev) IN
       IF IsInfoDepth(line)
       THEN IF ParseInfo(line).ok
            THEN UNCHANGED <<xpc, xlog>>
            ELSE xpc' = "panic" /\ xlog' = XReturn("panic")
       ELSE IF IsBestMove(line)
       THEN IF ParseBestMove(line).ok
            THEN xpc' = "idle" /\ xlog' = XReturn("best")
            ELSE xpc' = "panic" /\ xlog' = XReturn("panic")
       ELSE UNCHANGED <<xpc, xlog>>
    /\ UNCHANGED <<xq, xw, xr, xin, xcpos, xalive, xsearching, xinfoLeft, xpipe,
                   xbudget>>
    /\ UNCHANGED notX

ExNext ==
    \/ XWriter
    \/ XChildRead
    \/ XChildInfo
    \/ XChildBestMove
    \/ XKill
    \/ XReaderLine
    \/ XReaderEof
    \/ XReaderFail
    \/ XUci
    \/ XIsReady
    \/ XStop
    \/ XWait
    \/ XOpts
    \/ XGoSend
    \/ XSelectLine

ExSpec == Init /\ [][ExNext]_vars

\* The scheduler runs the writer, the reader and the caller when they can
\* run, and the child process reads its input.
ExFairSpec ==
    /\ ExSpec
    /\ WF_vars(XWriter)
    /\ WF_vars(XChildRead)
    /\ WF_vars(XReaderLine)
    /\ WF_vars(XReaderEof)
    /\ WF_vars(XWait)

\* The serialization of jobs: a caller builds any job with the builder
\* and executes it, the job task sends its commands, the writer writes them;
\* the engine prints nothing, a job ends when the process is killed.
JobNext ==
    \/ \E j \in Jobs : BuildFen(j)
    \/ \E j \in Jobs : BuildMoves(j)
    \/ \E j \in Jobs : BuildDepth(j)
    \/ \E j \in Jobs : ExecuteBuilt(j)
    \/ \E j \in Jobs : JobLock(j)
    \/ \E j \in Jobs : JobSendPosition(j)
    \/ \E j \in Jobs : JobSendGo(j)
    \/ \E j \in Jobs : JobRecvClosed(j)
    \/ WriterTake
    \/ WriterNewline
    \/ ReaderEof
    \/ Kill

JobSpec == Init /\ [][JobNext]_vars

\* The stream of one job: the callers' calls enqueue two commands (one job,
\* or the handshake calls), the child prints up to StreamInfo info lines.
StreamInit == InitWith(2, StreamInfo)

StreamSpec == StreamInit /\ [][Next]_vars

\* The configuration of the two Engines: the callers call opts, the writers
\* write, the children read.
OptsStep ==
    \/ Opts
    \/ OptsNext
    \/ WriterTake
    \/ WriterNewline
    \/ ChildRead
    \/ Kill
    \/ XOpts
    \/ XWriter
    \/ XChildRead
    \/ XKill

OptsSpec == Init /\ [][OptsStep]_vars

(***************************************************************************)
(* The actor of examples/stockfish.rs: Engine::run owns the child's stdin  *)
(* and stdout and serves the requests of its mailbox one after the other;  *)
(* the caller holds the Handle.  What is written to stdin is whole lines.  *)
(***************************************************************************)

\* the job the caller gives to Handle::go
AJob == GoDepth(GoMoves(GoNew, <<"d2d4", "g8f6">>), 32)

\* Command::Stop, lines 85-86: b"stop\nisready\n" and then b"isready\n"
AStopLines == << <<"stop">>, <<"isready">>, <<"isready">> >>

\* stdin.write_all(..).await?: the lines are written, or the write to a dead
\* child fails and run returns the error.
AWrite(lines, nextpc) ==
    IF aalive
    THEN ain' = ain \o lines /\ apc' = nextpc
    ELSE ain' = ain /\ apc' = "dead"

\* run, line 45: stdin.write_all(b"uci\n")
AStart ==
    /\ apc = "start"
    /\ AWrite(<< <<"uci">> >>, "uciok")
    /\ UNCHANGED <<amail, acpos, aalive, asearching, ainfoLeft, apipe, astx, hpc, hbudget>>
    /\ UNCHANGED notA

AKeyword == IF apc = "uciok" THEN UciOk ELSE ReadyOk

\* Engine::wait returns Ok: run goes on behind the wait; for IsReady and
\* Stop that is ack.send(()), which wakes the caller.
AWaitDone ==
    /\ apc' = "recv"
    /\ hpc' = IF apc = "uciok" THEN hpc ELSE "idle"

\* Engine::wait, lines 107-114: one line is read and compared with the
\* keyword; the loop also ends, with Ok, at the end of the child's output.
AWait ==
    /\ apc \in {"uciok", "isready", "stop"}
    /\ IF apipe # <<>>
       THEN /\ apipe' = Tail(apipe)
            /\ IF Head(apipe) = AKeyword
               THEN AWaitDone
               ELSE UNCHANGED <<apc, hpc>>
       ELSE /\ ~aalive
            /\ AWaitDone
            /\ UNCHANGED apipe
    /\ UNCHANGED <<amail, ain, acpos, aalive, asearching, ainfoLeft, astx, hbudget>>
    /\ UNCHANGED notA

\* reader.next_line().await? is Err (a line that is not UTF-8): run returns
AReadFail ==
    /\ apc \in {"uciok", "isready", "stop", "go"}
    /\ apipe # <<>>
    /\ apipe' = Tail(apipe)
    /\ apc' = "dead"
    /\ UNCHANGED <<amail, ain, acpos, aalive, asearching, ainfoLeft, astx, hpc, hbudget>>
    /\ UNCHANGED notA

\* run, lines 48-54: Command::IsReady is received, isready writes its line
AIsReady ==
    /\ apc = "recv"
    /\ amail # <<>>
    /\ Head(amail) = "IsReady"
    /\ amail' = Tail(amail)
    /\ AWrite(<< <<"isready">> >>, "isready")
    /\ UNCHANGED <<acpos, aalive, asearching, ainfoLeft, apipe, astx, hpc, hbudget>>
    /\ UNCHANGED notA

\* run, lines 56-71: Command::Go is received, the position and the go
\* command are written
AGo ==
    /\ apc = "recv"
    /\ amail # <<>>
    /\ Head(amail) = "Go"
    /\ amail' = Tail(amail)
    /\ AWrite(<<PositionCmd(AJob), GoCmd(AJob)>>, "go")
    /\ astx' = <<>>
    /\ UNCHANGED <<acpos, aalive, asearching, ainfoLeft, apipe, hpc, hbudget>>
    /\ UNCHANGED notA

\* run, lines 84-86: Command::Stop is received, stop and isready are written
\* and isready once more
AStop ==
    /\ apc = "recv"
    /\ amail # <<>>
    /\ Head(amail) = "Stop"
    /\ amail' = Tail(amail)
    /\ AWrite(AStopLines, "stop")
    /\ UNCHANGED <<acpos, aalive, asearching, ainfoLeft, apipe, astx, hpc, hbudget>>
    /\ UNCHANGED notA

\* run, lines 73-82: one turn of the loop of Command::Go on a line read; the
\* decoders' results are unwrapped, a failure panics the actor task.
AGoLine ==
    /\ apc = "go"
    /\ apipe # <<>>
    /\ apipe' = Tail(apipe)
    /\ LET line == Head(apipe) IN
       IF IsInfoDepth(line)
       THEN LET r == ParseInfo(line) IN
            IF r.ok
            THEN /\ Len(astx) < SearcherCap
                 /\ astx' = Append(astx, r.ev)
                 /\ UNCHANGED apc
            ELSE apc' = "dead" /\ UNCHANGED astx
       ELSE IF IsBestMove(line)
       THEN LET r == ParseBestMove(line) IN
            IF r.ok
            THEN /\ Len(astx) < SearcherCap
                 /\ astx' = Append(astx, r.ev)
                 /\ apc' = "recv"
            ELSE apc' = "dead" /\ UNCHANGED astx
       ELSE UNCHANGED <<apc, astx>>
    /\ UNCHANGED <<amail, ain, acpos, aalive, asearching, ainfoLeft, hpc, hbudget>>
    /\ UNCHANGED notA

\* run, line 73: next_line() is None, the loop of Command::Go ends
AGoEof ==
    /\ apc = "go"
    /\ apipe = <<>>
    /\ ~aalive
    /\ apc' = "recv"
    /\ UNCHANGED <<amail, ain, acpos, aalive, asearching, ainfoLeft, apipe, astx, hpc, hbudget>>
    /\ UNCHANGED notA

\* self.tx.send(request).await?: the request is put into the mailbox, or the
\* call returns Err because the actor task is gone.
HSend(req, nextpc) ==
    /\ hbudget >= 1
    /\ hbudget' = hbudget - 1
    /\ IF apc = "dead"
       THEN UNCHANGED <<amail, hpc>>
       ELSE /\ Len(amail) < ActorCap
            /\ amail' = Append(amail, req)
            /\ hpc' = nextpc
    /\ UNCHANGED <<apc, ain, acpos, aalive, asearching, ainfoLeft, apipe, astx>>

\* Handle::isready: send Command::IsReady and await the ack
HIsReady ==
    /\ hpc = "idle"
    /\ HSend("IsReady", "isready")
    /\ UNCHANGED notA

\* Handle::go: send Command::Go and return the Searcher
HGo ==
    /\ hpc = "idle"
    /\ HSend("Go", "idle")
    /\ UNCHANGED notA

\* Handle::stop: send Command::Stop and await the ack
HStop ==
    /\ hpc = "idle"
    /\ HSend("Stop", "stop")
    /\ UNCHANGED notA

\* syn.await? is Err: the actor task ended and dropped the ack
HAckDropped ==
    /\ hpc \in {"isready", "stop"}
    /\ apc = "dead"
    /\ hpc' = "idle"
    /\ UNCHANGED <<amail, apc, ain, acpos, aalive, asearching, ainfoLeft, apipe, astx, hbudget>>
    /\ UNCHANGED notA

\* The child reads its next command line (as XChildRead).
AChildRead ==
    /\ aalive
    /\ acpos < Len(ain)
    /\ LET verb == ain[acpos + 1][1]
       IN  /\ asearching => verb # "go"
           /\ acpos' = acpos + 1
           /\ CASE verb = "uci" ->
                     apipe' = Append(apipe, UciOk) /\ UNCHANGED asearching
                [] verb = "isready" ->
                     apipe' = Append(apipe, ReadyOk) /\ UNCHANGED asearching
                [] verb = "go" ->
                     asearching' = TRUE /\ UNCHANGED apipe
                [] verb = "stop" /\ asearching ->
                     /\ \E b \in BestLines : apipe' = Append(apipe, b)
                     /\ asearching' = FALSE
                [] OTHER -> UNCHANGED <<apipe, asearching>>
    /\ UNCHANGED <<amail, apc, ain, aalive, ainfoLeft, astx, hpc, hbudget>>
    /\ UNCHANGED notA

AChildInfo ==
    /\ aalive
    /\ asearching
    /\ ainfoLeft > 0
    /\ \E l \in InfoLines : apipe' = Append(apipe, l)
    /\ ainfoLeft' = ainfoLeft - 1
    /\ UNCHANGED <<amail, apc, ain, acpos, aalive, asearching, astx, hpc, hbudget>>
    /\ UNCHANGED notA

AChildBestMove ==
    /\ aalive
    /\ asearching
    /\ \E b \in BestLines : apipe' = Append(apipe, b)
    /\ asearching' = FALSE
    /\ UNCHANGED <<amail, apc, ain, acpos, aalive, ainfoLeft, astx, hpc, hbudget>>
    /\ UNCHANGED notA

AKill ==
    /\ aalive
    /\ aalive' = FALSE
    /\ asearching' = FALSE
    /\ UNCHANGED <<amail, apc, ain, acpos, ainfoLeft, apipe, astx, hpc, hbudget>>
    /\ UNCHANGED notA

ActorNext ==
    \/ AStart
    \/ AWait
    \/ AReadFail
    \/ AIsReady
    \/ AGo
    \/ AStop
    \/ AGoLine
    \/ AGoEof
    \/ HIsReady
    \/ HGo
    \/ HStop
    \/ HAckDropped
    \/ AChildRead
    \/ AChildInfo
    \/ AChildBestMove
    \/ AKill

ActorSpec == Init /\ [][ActorNext]_vars

\* A long search whose caller holds the Searcher and does not call next: one
\* job, and a child that prints one more info line than the Searcher channel
\* holds, each of them decodable.
LongInit == InitWith(2, SearcherCap + 1)

LongNext ==
    \/ \E j \in Jobs : Execute(j)
    \/ \E j \in Jobs : JobLock(j)
    \/ \E j \in Jobs : JobSendPosition(j)
    \/ \E j \in Jobs : JobSendGo(j)
    \/ \E j \in Jobs : JobLine(j)
    \/ WriterTake
    \/ WriterNewline
    \/ ChildRead
    \/ ChildInfoOf({<<"info", "depth", "1", "pv", "e2e4">>})
    \/ ChildBestMove
    \/ ReaderLine

LongSpec == LongInit /\ [][LongNext]_vars

(***************************************************************************)
(* The decoders of src/src/search.rs as pure functions: a caller gives     *)
(* one line to parse_info or to parse_bestmove.                            *)
(***************************************************************************)

\* Runs of tokens an info line is put together from: keywords with their
\* values, keywords whose values are missing or do not parse, other tokens.
InfoPieces ==
    { <<"info">>,
      <<"depth", "1">>,
      <<"depth", "x">>,
      <<"depth">>,
      <<"seldepth", "2", "multipv", "1">>,
      <<"score", "cp", "-3">>,
      <<"score", "mate", "2">>,
      <<"score", "cp">>,
      <<"score", "lowerbound">>,
      <<"score">>,
      <<"wdl", "1", "2", "8">>,
      <<"wdl", "1", "2">>,
      <<"nodes", "8", "nps", "10">>,
      <<"nodes", "-3">>,
      <<"hashfull", "0", "tbhits", "0", "time", "32">>,
      <<"pv", "e2e4", "depth">> }

BestTokens == {"bestmove", "e2e4", "ponder", "e7e5"}

SeqsUpTo(S, n) == UNION { [1..k -> S] : k \in 0..n }

RECURSIVE Joined(_)
Joined(ps) == IF ps = <<>> THEN <<>> ELSE Head(ps) \o Joined(Tail(ps))

\* line.split_whitespace() of the lines a caller gives to parse_info
InfoInputs == { Joined(ps) : ps \in SeqsUpTo(InfoPieces, MaxSegs) }

\* line.split_whitespace() of the lines a caller gives to parse_bestmove
BestInputs == SeqsUpTo(BestTokens, MaxSegs + 1)

DecInit ==
    /\ EngineInit(MaxCmds, MaxInfo)
    /\ dline \in InfoInputs \cup BestInputs
    /\ dop = "none"
    /\ dres = [kind |-> "none"]
    /\ ActorInit

\* line.parse::<Info>(): Ok(info) or Err(e)
DecodeInfo ==
    /\ dop = "none"
    /\ dop' = "parse_info"
    /\ dres' = (LET r == ParseInfo(dline) IN IF r.ok THEN r.ev ELSE [kind |-> "Err"])
    /\ UNCHANGED <<dline, notD>>

\* line.parse::<BestMove>(): Ok(bestmove), or the panic of an index out of
\* bounds; parse_bestmove has no Err path.
DecodeBestMove ==
    /\ dop = "none"
    /\ dop' = "parse_bestmove"
    /\ dres' = (LET r == ParseBestMove(dline) IN IF r.ok THEN r.ev ELSE [kind |-> "panic"])
    /\ UNCHANGED <<dline, notD>>

DecNext ==
    \/ DecodeInfo
    \/ DecodeBestMove

DecSpec == DecInit /\ [][DecNext]_vars

----------------------------------------------------------------------------
(* Properties *)

HasBestMove(evs) == \E i \in 1..Len(evs) : evs[i].kind = "BestMove"

\* C1: at most one job task is between the send of its position command and
\* the consumption of its bestmove line.
C1_AtMostOneJobInFlight == Cardinality({j \in Jobs : InFlight(j)}) <= 1

\* a job waits for the Engine while another job is in its loop
C1_Witness == \E j, k \in Jobs : j # k /\ pc[j] = "loop" /\ pc[k] = "lock"

\* the child runs and the writer and the reader have not failed
Healthy == alive /\ wpc # "dead" /\ rpc = "run"

\* no job task has ended on an error or a panic
NoJobFailed == \A k \in Jobs : pc[k] \in JobEnded => pc[k] = "done"

\* C2: a job submitted while another job is in flight is rejected: none of
\* its commands is ever enqueued (stated for the runs in which nothing
\* fails: neither the process, nor a queue, nor a job).
C2_BusyRejected ==
    \A j \in Jobs :
        (busyAtSubmit[j] /\ Healthy /\ NoJobFailed) =>
            \A i \in 1..Len(sent) : sent[i].by # j

\* C3: when the engine's output stream has not failed, a Searcher that got
\* None has received zero or more Info events and then exactly one BestMove.
C3_StreamShape ==
    \A j \in Jobs :
        (gotNone[j] /\ Healthy) =>
            /\ delivered[j] # <<>>
            /\ \A i \in 1..Len(delivered[j]) :
                 delivered[j][i].kind =
                    IF i = Len(delivered[j]) THEN "BestMove" ELSE "Info"

\* The byte stream of a sequence of commands, each followed by one newline.
RECURSIVE Framed(_)
Framed(cmds) ==
    IF cmds = <<>> THEN <<>> ELSE <<Head(cmds), NL>> \o Framed(Tail(cmds))

SentCmds == [i \in 1..Len(sent) |-> sent[i].cmd]

\* C4: what the writer has written is the enqueued commands in the order of
\* their enqueueing, each followed by exactly one newline (the last one
\* possibly still without it), and while the writer runs the commands not
\* yet written are exactly the queue: none is dropped, duplicated or merged.
C4_WriterFifo ==
    LET n == (Len(stdin) + 1) \div 2
    IN  /\ Len(stdin) <= 2 * Len(sent)
        /\ stdin = SubSeq(Framed(SentCmds), 1, Len(stdin))
        /\ wpc = "recv" => Len(stdin) = 2 * n
        /\ wpc = "newline" => Len(stdin) = 2 * n - 1
        /\ wpc # "dead" => cmdq = SubSeq(SentCmds, n + 1, Len(sent))

\* commands of two senders are written, one is being written, one is queued
C4_Witness ==
    /\ Len(stdin) >= 5
    /\ wpc = "newline"
    /\ cmdq # <<>>
    /\ \E i, k \in 1..Len(sent) : sent[i].by # sent[k].by

\* C5: while a job is in flight (its go command sent, its bestmove line not
\* consumed) on an Engine that has left Init, Engine.state is Search.
C5_SearchWhileInFlight ==
    \A j \in Jobs : (pc[j] = "loop" /\ state # "Init") => state = "Search"

\* C6: Engine.state is Ready only if uci() has observed a uciok line.
C6_ReadyAfterHandshake == state = "Ready" => uciokSeen

\* C7: no job has sent its position command while Engine.state is Init.
C7_AcceptedOnlyWhenReady == \A j \in Jobs : InFlight(j) => state # "Init"

\* C8: a line that fails to decode never ends the job task: the job stays
\* in its loop until its BestMove is delivered.
C8_DecodeFailureSkipped ==
    \A j \in Jobs : pc[j] \notin {"decode error", "index panic"}

\* C9: after the process is killed no wait for an inbound line panics.
C9_RecvNeverPanics == ~alive => \A t \in Tasks : pc[t] # "reader died"

\* The event queue is closed while job j waits for output and no bestmove
\* line has arrived.
QueueClosedBeforeBest(j) ==
    /\ pc[j] = "loop"
    /\ rpc = "dead"
    /\ \A i \in 1..Len(evq) : ~IsBestMove(evq[i])

\* Job j is where QueueClosedBeforeBest(j) leads: still waiting, or ended on
\* the closed queue or on one of the lines left in it.
AfterQueueClosed(j) ==
    \/ QueueClosedBeforeBest(j)
    \/ rpc = "dead" /\ pc[j] \in {"reader died", "decode error"}

\* The job task or its Searcher can take a step.
JobCanStep(j) == ENABLED <<JobLine(j) \/ JobRecvClosed(j) \/ SearcherNext(j)>>_vars

\* C10: if the event queue closes while a job waits for output and before
\* its bestmove line arrived, the job's stream ends without a BestMove and
\* nothing blocks: no BestMove is buffered or delivered, and until next has
\* returned None the job task or the Searcher can always take its next step
\* (each step consumes a line or an event, so finitely many remain).
C10_StreamEndsOnClosedQueue ==
    \A j \in Jobs :
        AfterQueueClosed(j) =>
            /\ ~HasBestMove(stx[j])
            /\ ~HasBestMove(delivered[j])
            /\ gotNone[j] \/ JobCanStep(j)

\* C10 as a property of the fair behaviours: the Searcher eventually gets
\* None, and no BestMove before it.
C10_EventuallyNone ==
    \A j \in Jobs :
        QueueClosedBeforeBest(j) ~> (gotNone[j] /\ ~HasBestMove(delivered[j]))

\* the job task ended on the closed queue and its Searcher got None
C10_Witness ==
    \E j \in Jobs :
        /\ pc[j] = "reader died"
        /\ gotNone[j]
        /\ ~HasBestMove(delivered[j])

\* C11: while a job is in flight it holds the Engine, and a step of any other
\* task (the submission of a second job, the second job's task, a foreground
\* call) leaves both queues, the commands sent and the job's stream as they
\* are: the stream of the job in flight is what it is without the second job.
C11_InFlightUndisturbed ==
    [][\A k \in Jobs :
          InFlight(k) =>
              /\ lock = {k}
              /\ \A t \in Tasks \ {k} :
                    pc'[t] # pc[t] =>
                        /\ cmdq' = cmdq
                        /\ evq' = evq
                        /\ sent' = sent
                        /\ stx'[k] = stx[k]
                        /\ delivered'[k] = delivered[k]]_vars

\* a job was submitted while another was in flight, and that other job's
\* Searcher has received an Info and the BestMove
C11_Witness ==
    \E j, k \in Jobs :
        /\ busyAtSubmit[j]
        /\ pc[j] = "lock"
        /\ pc[k] = "done"
        /\ Len(delivered[k]) = 2
        /\ delivered[k][1].kind = "Info"
        /\ delivered[k][2].kind = "BestMove"

\* C15: isready() returns only on the readyok that answers its own isready
\* command: when it returns, its command is the last one enqueued and the
\* engine has read every command enqueued so far.
C15_IsReadyBarrier ==
    [][(pc[Caller] = "isready" /\ pc'[Caller] = "idle") =>
          /\ sent[Len(sent)].cmd = <<"isready">>
          /\ cpos = Len(sent)
          /\ cmdq = <<>>]_vars

\* isready() has returned after the commands of a job were enqueued before it
C15_Witness ==
    /\ pc[Caller] = "idle"
    /\ Len(sent) >= 3
    /\ sent[Len(sent)].cmd = <<"isready">>
    /\ \E i \in 1..Len(sent) : sent[i].by \in Jobs
    /\ cpos = Len(sent)

\* C16: once uci() has returned, Engine.state leaves Init for Ready only in
\* isready().
C16_ReadyOnlyByIsReady ==
    [][(uciokSeen /\ state = "Init" /\ state' = "Ready") =>
          pc[Caller] = "isready"]_vars

\* C20: the failure of the writer or of the reader alone (the process still
\* runs) crashes no caller: a send on the closed command queue and a recv on
\* the closed event queue see an end of stream and do not panic.
C20_ClosedQueueIsEndOfStream ==
    \A t \in Tasks :
        /\ pc[t] # "sender died"
        /\ alive => pc[t] # "reader died"

\* The commands task t has enqueued, in order.
RECURSIVE SentBy(_, _)
SentBy(t, n) ==
    IF n = 0 THEN <<>>
    ELSE IF sent[n].by = t THEN Append(SentBy(t, n - 1), sent[n].cmd)
    ELSE SentBy(t, n - 1)

\* cmd is the position command of the Go value g, token by token.
IsPositionOf(cmd, g) ==
    LET k == IF g.position = <<>> THEN 2 ELSE 2 + Len(g.position[1])
    IN  /\ Len(cmd) >= k
        /\ cmd[1] = "position"
        /\ IF g.position = <<>>
           THEN cmd[2] = "startpos"
           ELSE cmd[2] = "fen" /\ SubSeq(cmd, 3, k) = g.position[1]
        /\ IF g.moves = <<>>
           THEN Len(cmd) = k
           ELSE /\ Len(cmd) = k + 1 + Len(g.moves)
                /\ cmd[k + 1] = "moves"
                /\ SubSeq(cmd, k + 2, Len(cmd)) = g.moves

\* cmd is 'go depth N' with N the decimal numeral of g.depth.
IsGoOf(cmd, g) ==
    /\ Len(cmd) = 3
    /\ cmd[1] = "go"
    /\ cmd[2] = "depth"
    /\ cmd[3] \in DOMAIN NumVal
    /\ NumVal[cmd[3]] = g.depth

\* C17: a job task enqueues its position command and then its go command
\* and nothing else: nothing before it holds the Engine, the position
\* command alone between its two sends, both once it is past them; the
\* default job yields 'position startpos' and 'go depth 10'.
C17_JobSerialization ==
    \A j \in Jobs :
        LET cmds == SentBy(j, Len(sent))
        IN  /\ pc[j] \in {"new", "lock", "position"} => cmds = <<>>
            /\ pc[j] = "go" => Len(cmds) = 1 /\ IsPositionOf(cmds[1], job[j])
            /\ pc[j] = "sender died" => Len(cmds) <= 1
            /\ pc[j] \notin {"new", "lock", "position", "go", "sender died"} =>
                  /\ Len(cmds) = 2
                  /\ IsPositionOf(cmds[1], job[j])
                  /\ IsGoOf(cmds[2], job[j])
                  /\ job[j] = GoNew =>
                        cmds = << <<"position", "startpos">>, <<"go", "depth", "10">> >>

\* the default job, and a job with a FEN, two moves and its own depth, have
\* both sent their two commands
C17_Witness ==
    \E j, k \in Jobs :
        /\ pc[j] = "reader died"
        /\ job[j] = GoNew
        /\ pc[k] = "loop"
        /\ job[k].position # <<>>
        /\ Len(job[k].moves) = 2
        /\ job[k].depth = 32

\* While stop() waits, the writer, the child, the reader or the wait itself
\* can take its next step.
XStopCanProceed ==
    ENABLED <<XWriter \/ XChildRead \/ XReaderLine \/ XReaderEof \/ XWait>>_vars

C12_StopReturns == (xpc = "stop") ~> (xpc = "idle")

C13_SuccessOnlyAfterAck ==
    \A i \in 1..Len(xlog) :
        xlog[i].op = "stop" => xlog[i].end \in {"running", "err", "ack"}

\* C14: a stop() called while no job is in flight enqueues nothing.
C14_CancelWhenReadyIsNoOp ==
    [][(xpc = "idle" /\ xpc' = "stop" /\ ~XJobPending) => xq' = xq]_vars

\* the setoption line of the k-th pair of the list, counting cyclically
OptionLine(list, k) ==
    LET pair == list[((k - 1) % Len(list)) + 1]
    IN  <<"setoption", "name", pair[1], "value", pair[2]>>

RECURSIVE ParsedInfos(_)
ParsedInfos(lines) ==
    IF lines = <<>> THEN <<>>
    ELSE IF IsInfoDepth(Head(lines)) /\ ParseInfo(Head(lines)).ok
         THEN <<ParseInfo(Head(lines)).ev>> \o ParsedInfos(Tail(lines))
         ELSE ParsedInfos(Tail(lines))

\* C19: no info line of a job is dropped: when the job's Searcher has got
\* None and neither the process nor the writer nor the reader has failed,
\* no decodable 'info depth' line the engine printed is left undelivered in
\* the pipe or in the event queue.
C19_NoInfoDropped ==
    \A j \in Jobs :
        (gotNone[j] /\ Healthy) =>
            /\ ParsedInfos(pipe) = <<>>
            /\ ParsedInfos(evq) = <<>>

(* Decoding of info lines, stated on the line itself.  A keyword stands at  *)
(* a keyword position: the first token, and the token behind the values of *)
(* the keyword before it; behind pv there is none.                         *)
KeywordWidth(tok) ==
    CASE tok \in UnsignedKeywords -> 2
      [] tok = "score" -> 3
      [] tok = "wdl" -> 4
      [] OTHER -> 1

RECURSIVE KeywordPositions(_, _)
KeywordPositions(parts, p) ==
    IF p > Len(parts) THEN {}
    ELSE {p} \cup (IF parts[p] = "pv" THEN {}
                   ELSE KeywordPositions(parts, p + KeywordWidth(parts[p])))

\* the keyword at position p is followed by the values it needs
ValueOk(parts, p) ==
    LET n == Len(parts) IN
    CASE parts[p] \in UnsignedKeywords -> p + 1 <= n /\ IsUnsigned(parts[p + 1])
      [] parts[p] = "score" ->
            /\ p + 2 <= n
            /\ parts[p + 1] \in {"cp", "mate"}
            /\ IsSigned(parts[p + 2])
      [] parts[p] = "wdl" ->
            /\ p + 3 <= n
            /\ \A k \in 1..3 : IsUnsigned(parts[p + k])
      [] OTHER -> TRUE

\* the last keyword position that holds the keyword key, 0 if there is none
LastOf(parts, key) ==
    LET ps == { p \in KeywordPositions(parts, 1) : parts[p] = key }
    IN  IF ps = {} THEN 0 ELSE CHOOSE p \in ps : \A q \in ps : q <= p

FieldOf(info, key) ==
    CASE key = "depth" -> info.depth
      [] key = "seldepth" -> info.seldepth
      [] key = "multipv" -> info.multipv
      [] key = "nodes" -> info.nodes
      [] key = "nps" -> info.nps
      [] key = "hashfull" -> info.hashfull
      [] key = "tbhits" -> info.tbhits
      [] key = "time" -> info.time

\* C21: parse_info on a line whose keywords all have their values returns an
\* Info in which every field is the value behind the last occurrence of its
\* keyword (score: cp or mate with a signed value, wdl: three values), pv
\* is all the tokens behind the pv keyword, and a field whose keyword does
\* not occur is the default; other tokens are skipped.
C21_InfoDecoding ==
    (/\ dop = "parse_info"
     /\ \A p \in KeywordPositions(dline, 1) : ValueOk(dline, p))
    => /\ dres.kind = "Info"
       /\ \A key \in UnsignedKeywords :
            LET p == LastOf(dline, key) IN
            FieldOf(dres.info, key) = IF p = 0 THEN 0 ELSE NumVal[dline[p + 1]]
       /\ LET p == LastOf(dline, "score") IN
          dres.info.score =
             IF p = 0 THEN [kind |-> "Cp", val |-> 0]
             ELSE [kind |-> IF dline[p + 1] = "cp" THEN "Cp" ELSE "Mate",
                   val |-> SignedVal(dline[p + 2])]
       /\ LET p == LastOf(dline, "wdl") IN
          dres.info.wdl =
             IF p = 0 THEN <<0, 0, 0>>
             ELSE <<NumVal[dline[p + 1]], NumVal[dline[p + 2]], NumVal[dline[p + 3]]>>
       /\ LET p == LastOf(dline, "pv") IN
          dres.info.pv = IF p = 0 THEN <<>> ELSE SubSeq(dline, p + 1, Len(dline))

\* an info line with an unrecognized token, a negative score and a pv that
\* holds the depth keyword has been decoded
C21_Witness ==
    /\ dop = "parse_info"
    /\ dline = <<"info", "score", "cp", "-3", "pv", "e2e4", "depth">>
    /\ dres.kind = "Info"
    /\ dres.info.depth = 0
    /\ dres.info.score = [kind |-> "Cp", val |-> 0 - 3]
    /\ dres.info.pv = <<"e2e4", "depth">>

\* C22: parse_info returns an error, and neither panics nor returns an Info,
\* when a keyword of the line lacks a value or has one that does not parse;
\* for score: when it is not followed by cp or mate and a signed integer.
C22_BadValueIsError ==
    (/\ dop = "parse_info"
     /\ \E p \in KeywordPositions(dline, 1) : ~ValueOk(dline, p))
    => dres.kind = "Err"

\* C23: parse_bestmove on a line that starts with bestmove never panics,
\* and the BestMove it returns has the second token as best move and the
\* fourth token as ponder move iff the third token is ponder (no ponder move
\* otherwise).
C23_BestMoveDecoding ==
    (dop = "parse_bestmove" /\ IsBestMove(dline))
    => /\ dres.kind \in {"BestMove", "Err"}
       /\ dres.kind = "BestMove" =>
            /\ dres.best = dline[2]
            /\ (Len(dline) >= 4 /\ dline[3] = "ponder") => dres.ponder = dline[4]
            /\ (Len(dline) >= 3 /\ dline[3] # "ponder") => dres.ponder = ""

\* a line such as "info string some text" or "readyok"
OtherLine(line) ==
    /\ line # <<>>
    /\ line[1] # "bestmove"
    /\ line[1] = "info" => (Len(line) < 2 \/ line[2] # "depth")

\* C24: when a job task takes a line that is neither an info depth line nor
\* a bestmove line, nothing is put on the job's stream, the task does not
\* end (no decode failure) and it goes on waiting for its bestmove.
C24_OtherLinesIgnored ==
    [][\A j \in Jobs :
         (/\ pc[j] = "loop"
          /\ evq # <<>>
          /\ evq' = Tail(evq)
          /\ OtherLine(Head(evq)))
         => /\ stx' = stx
            /\ delivered' = delivered
            /\ pc'[j] = "loop"
            /\ lock' = {j}
            /\ state' = state]_vars

\* the child has printed its info lines, a job has consumed them without an
\* event and without ending, and waits for the bestmove of the running search
C24_Witness ==
    \E j \in Jobs :
        /\ pc[j] = "loop"
        /\ \A k \in Jobs \ {j} : pc[k] = "new"
        /\ infoLeft = 0
        /\ pipe = <<>>
        /\ evq = <<>>
        /\ rpc = "run"
        /\ searching
        /\ stx[j] = <<>>
        /\ delivered[j] = <<>>

\* the child has read the go command of job k (the cpos lines it has read
\* are the first cpos commands enqueued)
ChildReadGoOf(k) ==
    \E i \in 1..cpos :
        /\ i <= Len(sent)
        /\ sent[i].by = k
        /\ sent[i].cmd[1] = "go"

\* C25: an event on a job's stream was printed by the engine in answer to
\* that job's go command: no job has an event before the engine has read
\* its go command.
C25_OwnEventsOnly ==
    \A k \in Jobs :
        (stx[k] # <<>> \/ delivered[k] # <<>>) => ChildReadGoOf(k)

\* the bestmove line of job j has been taken from the event queue by j
BestMoveConsumed(j) == pc[j] \in {"done", "index panic"}

\* C26: while the process and both queues are up, the command enqueued
\* behind a job's position command is that job's go command, and no command
\* is enqueued behind a job's go command before the job has consumed its
\* bestmove line.
C26_NoCommandInsideJob ==
    Healthy =>
      \A i \in 1..Len(sent) :
        LET j == sent[i].by IN
        (j \in Jobs /\ i < Len(sent)) =>
           IF sent[i].cmd[1] = "position"
           THEN sent[i + 1].by = j /\ sent[i + 1].cmd[1] = "go"
           ELSE BestMoveConsumed(j)

\* the engine has printed a bestmove line that no one has taken yet
BestMoveEmitted == \E i \in 1..Len(pipe \o evq) : IsBestMove((pipe \o evq)[i])

\* C27: once the engine has printed the job's bestmove line the job task
\* gets to its end whatever the caller does with the Searcher: as long as it
\* is in its loop and a line is there for it, the task can take its next
\* step without a call of Searcher::next.
C27_JobEndsWithoutPolling ==
    \A j \in Jobs :
        (pc[j] = "loop" /\ BestMoveEmitted /\ evq # <<>>)
        => ENABLED <<JobLine(j)>>_vars

\* C28: the commands of jobs reach the command queue (and so the engine) in
\* the order of the execute calls: jobs are numbered in that order, and no
\* command of a job is enqueued behind a command of a job executed later
\* (in the runs in which nothing fails).
C28_PairsInExecuteOrder ==
    (Healthy /\ NoJobFailed) =>
      \A i, k \in 1..Len(sent) :
        (i < k /\ sent[i].by \in Jobs /\ sent[k].by \in Jobs)
        => sent[i].by <= sent[k].by

\* C29: a Stop request that arrives while the actor serves a Go request and
\* the engine is searching is served at once: the actor can take it from
\* the mailbox and write stop without first reading the job's bestmove line.
C29_StopInterruptsSearch ==
    (/\ apc = "go"
     /\ aalive
     /\ asearching
     /\ amail # <<>>
     /\ Head(amail) = "Stop")
    => ENABLED <<AStop>>_vars

\* the isready lines among the first n lines written to the child
RECURSIVE IsReadyWritten(_)
IsReadyWritten(n) ==
    IF n = 0 THEN 0
    ELSE IsReadyWritten(n - 1) + (IF ain[n] = <<"isready">> THEN 1 ELSE 0)

RECURSIVE ReadyOkIn(_)
ReadyOkIn(lines) ==
    IF lines = <<>> THEN 0
    ELSE ReadyOkIn(Tail(lines)) + (IF Head(lines) = ReadyOk THEN 1 ELSE 0)

\* readyok lines the actor has read: the child prints one for every isready
\* it reads, and what it has printed is read by the actor or still in the pipe
ReadyOkConsumed == IsReadyWritten(acpos) - ReadyOkIn(apipe)

\* C30: whenever the actor has served its requests and waits for the next,
\* it has consumed as many readyok lines as it has written isready
\* commands (while the process runs and the actor has lost no line).
C30_ReadyOkBalance ==
    (apc = "recv" /\ aalive /\ hpc = "idle")
    => ReadyOkConsumed = IsReadyWritten(Len(ain))

====
